---- MODULE Spec2Model ----
(***************************************************************************)
(* Marine Debris Detection API (src/app.py): the POST /predict/ handler,   *)
(* the GET /output/{filename} handler and the two directories they share.  *)
(*                                                                         *)
(* Text is a sequence of one-character strings, so that prefixes, suffixes *)
(* and extensions are computed and not assumed.  A uuid4().hex token is    *)
(* one opaque element of such a sequence (it holds neither "." nor "/").   *)
(* uuid4 is modelled as a generator of tokens that were not drawn before:  *)
(* its 2^-122 collision probability has no counterpart in the model.       *)
(* The detector (ultralytics YOLO) and the file system are the             *)
(* environment: what the detector returns and writes, and whether the      *)
(* upload can be opened for writing, are inputs drawn with \E.             *)
(***************************************************************************)
EXTENDS Integers, Sequences, FiniteSets, TLC

VARIABLES
    req,       \* per POST /predict/ request: position in the handler and its locals
    uploads,   \* the uploads directory: file name -> the request that wrote it
    dirs,      \* the sub-directories of outputs
    files,     \* the regular files below outputs: [dir, name, run]
    nextTok,   \* number of uuid4() tokens drawn so far
    produced,  \* history: base names of all files a detector run has saved
    lastGet    \* the response of the latest GET /output/{filename}, or None

vars == <<req, uploads, dirs, files, nextTok, produced, lastGet>>

\* ---------------------------------------------------------------- bounds
MaxReq == 2

Reqs == 1..MaxReq


\* ------------------------------------------------------------------ text
image_prefix == <<"i", "m", "a", "g", "e", "/">>

\* str.startswith
StartsWith(s, p) == Len(s) >= Len(p) /\ SubSeq(s, 1, Len(p)) = p

\* str.rfind, 1-based, 0 when absent
RFind(s, c) ==
    LET hits == {i \in 1..Len(s) : s[i] = c}
    IN  IF hits = {} THEN 0 ELSE CHOOSE i \in hits : \A j \in hits : j <= i

\* os.path.splitext(p)[1]: from the last dot of the base name on, unless
\* only dots precede it in the base name
SplitExt(p) ==
    LET sepIndex == RFind(p, "/")
        dotIndex == RFind(p, ".")
    IN  IF dotIndex > sepIndex
           /\ \E i \in (sepIndex + 1)..(dotIndex - 1) : p[i] /= "."
        THEN SubSeq(p, dotIndex, Len(p))
        ELSE <<>>

\* os.path.splitext(p)[0]
SplitStem(p) == SubSeq(p, 1, Len(p) - Len(SplitExt(p)))

upper_letters ==
    <<"A", "B", "C", "D", "E", "F", "G", "H", "I", "J", "K", "L", "M",
      "N", "O", "P", "Q", "R", "S", "T", "U", "V", "W", "X", "Y", "Z">>

lower_letters ==
    <<"a", "b", "c", "d", "e", "f", "g", "h", "i", "j", "k", "l", "m",
      "n", "o", "p", "q", "r", "s", "t", "u", "v", "w", "x", "y", "z">>

\* str.lower on one character; the text of the model is ASCII
LowerChar(c) ==
    IF \E i \in 1..Len(upper_letters) : upper_letters[i] = c
    THEN lower_letters[CHOOSE i \in 1..Len(upper_letters) : upper_letters[i] = c]
    ELSE c

\* str.lower
Lower(s) == [i \in 1..Len(s) |-> LowerChar(s[i])]

\* uuid.uuid4().hex for the k-th draw
Hex(k) == ToString(k)

\* ------------------------------------------------------- request inputs
\* file.content_type when the multipart part declares none
NoText == <<"<None>">>

img_png == <<"i", "m", "a", "g", "e", "/", "p", "n", "g">>
vid_mp4 == <<"v", "i", "d", "e", "o", "/", "m", "p", "4">>
txt_plain == <<"t", "e", "x", "t", "/", "p", "l", "a", "i", "n">>
image_only == <<"i", "m", "a", "g", "e">>
a_jpg == <<"a", ".", "j", "p", "g">>
a_bare == <<"a">>

\* the uploads a client sends: declared file name and declared content type
\* (a part without a file name is no UploadFile: the framework answers 422
\* and predict is not called)
Uploads ==
    { [filename |-> a_jpg,  content_type |-> NoText],
      [filename |-> a_jpg,  content_type |-> img_png],
      [filename |-> a_jpg,  content_type |-> txt_plain],
      [filename |-> a_bare, content_type |-> vid_mp4],
      [filename |-> a_bare, content_type |-> image_only] }

\* ------------------------------------------------------------- detector
\* model.names: the id -> label table of the loaded weights
Names == (0 :> "plastic") @@ (1 :> "net")

Box(c, k) == [cls |-> c, conf |-> k]

\* results[0].boxes as the detector may report it: None, or records in
\* emission order; conf counts sixteenths (a float32 on which round(.., 3)
\* can meet an exact tie)
NoBoxes == [boxes_none |-> TRUE, boxes |-> <<>>, save_dir |-> <<>>]
Boxes(bs) == [boxes_none |-> FALSE, boxes |-> bs, save_dir |-> <<>>]
three_boxes == <<Box(1, 5), Box(0, 16), Box(0, 7)>>
unknown_box == <<Box(0, 4), Box(2, 9)>>

jpg == <<".", "j", "p", "g">>
avi == <<".", "a", "v", "i">>

\* The detector names what it saves after its source (source=upload_path):
\* the annotated image <stem>.jpg, the annotated video <stem>.avi.
ImageName(source) == SplitStem(source) \o jpg
VideoName(source) == SplitStem(source) \o avi
ArtifactNames(source) == {ImageName(source), VideoName(source)}

\* what one call of the detector may do: raise, return an empty list, or
\* save some files and return one result
DetectorRuns(source) ==
    { [outcome |-> "raise",  saved |-> {}, boxes |-> NoBoxes],
      [outcome |-> "empty",  saved |-> {}, boxes |-> NoBoxes],
      [outcome |-> "result", saved |-> {}, boxes |-> Boxes(three_boxes)],
      [outcome |-> "result", saved |-> {}, boxes |-> Boxes(unknown_box)],
      [outcome |-> "result", saved |-> {ImageName(source)}, boxes |-> NoBoxes],
      [outcome |-> "result", saved |-> {VideoName(source)}, boxes |-> Boxes(<<>>)],
      [outcome |-> "result", saved |-> ArtifactNames(source), boxes |-> Boxes(three_boxes)] }

\* ------------------------------------------------------------- predict
\* a slip: the declared file name kept as the upload name
UniqueName_declared(tok, filename) == filename

\* line 37: unique_name = f"{uuid.uuid4().hex}{file_ext}"
UniqueName(tok, filename) == <<Hex(tok)>> \o SplitExt(filename)

\* a slip: one run directory name for every call
RunDirName_fixed(tok) == <<"d", "e", "t">>

\* line 50: name=f"det_{uuid.uuid4().hex}", under project="outputs"
RunDirName(tok) == <<"d", "e", "t", "_", Hex(tok)>>

\* a slip: the type decided by is_video (line 47) instead of is_image
FileType_by_video(content_type) ==
    IF StartsWith(content_type, <<"v", "i", "d", "e", "o", "/">>) THEN "video" ELSE "image"

\* line 46 and line 76
FileType(content_type) ==
    IF StartsWith(content_type, image_prefix) THEN "image" ELSE "video"

\* round(conf, 3) of conf sixteenths, in thousandths: nearest, ties to even
Round3(k) ==
    LET x == 625 * k
        q == x \div 10
        rem == x % 10
    IN  IF rem > 5 \/ (rem = 5 /\ q % 2 = 1) THEN q + 1 ELSE q

\* lines 60-69: a KeyError at line 65 leaves the loop
UnknownClass(result) ==
    ~result.boxes_none
    /\ \E i \in 1..Len(result.boxes) : result.boxes[i].cls \notin DOMAIN Names

\* a slip: each entry put in front of the list
Detections_reversed(result) ==
    IF result.boxes_none THEN <<>>
    ELSE [i \in 1..Len(result.boxes) |->
            [class |-> Names[result.boxes[Len(result.boxes) + 1 - i].cls],
             confidence |-> Round3(result.boxes[Len(result.boxes) + 1 - i].conf)]]

Detections(result) ==
    IF result.boxes_none THEN <<>>
    ELSE [i \in 1..Len(result.boxes) |->
            [class |-> Names[result.boxes[i].cls],
             confidence |-> Round3(result.boxes[i].conf)]]

\* line 54: the names os.listdir(result_dir) returns
ListDir(dir) == {f.name : f \in {g \in files : g.dir = dir}}

\* line 71: os.path.exists(os.path.join(result_dir, name))
Exists(dir, name) == \E f \in files : f.dir = dir /\ f.name = name

url_prefix == <<"/", "o", "u", "t", "p", "u", "t", "/">>

\* a slip: the base name of the run directory instead of the file
OutputUrl_of_dir(dir, name) == url_prefix \o dir

\* line 78: f"/output/{os.path.basename(output_file)}"
OutputUrl(dir, name) == url_prefix \o name

NoResp ==
    [kind |-> "none", status |-> 0, error |-> "", file_type |-> "",
     detections |-> <<>>, output_url |-> <<>>]

\* an exception leaves the handler; the handler builds no response
Raise(exc) == [NoResp EXCEPT !.kind = "raise", !.error = exc]

\* line 72
JsonError(code, msg) == [NoResp EXCEPT !.kind = "json", !.status = code, !.error = msg]

\* lines 75-79
JsonOk(content_type, result, dir, name) ==
    [NoResp EXCEPT !.kind = "json", !.status = 200,
                   !.file_type = FileType(content_type),
                   !.detections = Detections(result),
                   !.output_url = OutputUrl(dir, name)]

NoGet == [status |-> 0, name |-> <<>>, dir |-> <<>>, run |-> 0, media_type |-> "", error |-> ""]

IdleReq ==
    [pc |-> "idle", filename |-> <<>>, content_type |-> <<>>,
     upload |-> <<>>, run_dir |-> <<>>, results |-> <<>>,
     listed |-> {}, output_file |-> <<>>, resp |-> NoResp]

Started == Cardinality({r \in Reqs : req[r].pc /= "idle"})

Init ==
    /\ req = [r \in Reqs |-> IdleReq]
    /\ uploads = << >>
    /\ dirs = {}
    /\ files = {}
    /\ nextTok = 0
    /\ produced = {}
    /\ lastGet = NoGet

\* lines 30-39: the request arrives; requests are numbered in arrival order
Receive(r, filename, content_type) ==
    /\ req[r].pc = "idle"
    /\ r = Started + 1
    /\ req' = [req EXCEPT ![r] = [@ EXCEPT !.pc = "save",
                                           !.filename = filename,
                                           !.content_type = content_type,
                                           !.upload = UniqueName(nextTok + 1, filename)]]
    /\ nextTok' = nextTok + 1
    /\ UNCHANGED <<uploads, dirs, files, produced, lastGet>>

\* a slip: the uploads directory emptied before each save
WriteUpload_alone(name, r) == [n \in {name} |-> r]

\* open(upload_path, "wb") creates or truncates the file
WriteUpload(name, r) ==
    [n \in (DOMAIN uploads) \cup {name} |-> IF n = name THEN r ELSE uploads[n]]

\* lines 42-43: the upload is opened for writing and the body copied.  The
\* open may fail (no file appears) and the copy may fail (the file stays).
Save(r, outcome) ==
    /\ req[r].pc = "save"
    /\ CASE outcome = "ok" ->
              /\ uploads' = WriteUpload(req[r].upload, r)
              /\ req' = [req EXCEPT ![r].pc = "detect"]
         [] outcome = "open_fails" ->
              /\ uploads' = uploads
              /\ req' = [req EXCEPT ![r].pc = "done", ![r].resp = Raise("OSError")]
         [] outcome = "copy_fails" ->
              /\ uploads' = WriteUpload(req[r].upload, r)
              /\ req' = [req EXCEPT ![r].pc = "done", ![r].resp = Raise("OSError")]
    /\ UNCHANGED <<dirs, files, nextTok, produced, lastGet>>

SaveOutcomes == {"ok", "open_fails", "copy_fails"}

\* the detector saving `names` in `dir` for run r (a file of that path is replaced)
WriteFiles(dir, names, r) ==
    {f \in files : ~(f.dir = dir /\ f.name \in names)}
        \cup {[dir |-> dir, name |-> n, run |-> r] : n \in names}

\* lines 46-50: content_type.startswith, then model.predict(source=upload_path,
\* save=True, project="outputs", name="det_<token>", conf=0.25).  The detector
\* raises, or returns an empty list, or creates the run directory, saves
\* `saved` there and returns one result whose save_dir is that directory.
Detect(r, outcome, saved, boxes) ==
    /\ req[r].pc = "detect"
    /\ IF req[r].content_type = NoText
       THEN \* line 46: None.startswith raises AttributeError
            /\ req' = [req EXCEPT ![r].pc = "done", ![r].resp = Raise("AttributeError")]
            /\ UNCHANGED <<dirs, files, nextTok, produced>>
       ELSE LET dir == RunDirName(nextTok + 1)
            IN  /\ nextTok' = nextTok + 1
                /\ CASE outcome = "raise" ->
                          /\ req' = [req EXCEPT ![r].pc = "done", ![r].run_dir = dir,
                                                ![r].resp = Raise("InferenceError")]
                          /\ UNCHANGED <<dirs, files, produced>>
                     [] outcome = "empty" ->
                          /\ req' = [req EXCEPT ![r].pc = "resolve", ![r].run_dir = dir]
                          /\ UNCHANGED <<dirs, files, produced>>
                     [] outcome = "result" ->
                          /\ req' = [req EXCEPT ![r].pc = "resolve", ![r].run_dir = dir,
                                                ![r].results = <<[boxes EXCEPT !.save_dir = dir]>>]
                          /\ dirs' = dirs \cup {dir}
                          /\ files' = WriteFiles(dir, saved, r)
                          /\ produced' = produced \cup saved
    /\ UNCHANGED <<uploads, lastGet>>

\* lines 53-79: list the run directory, take the first entry (os.listdir
\* order is arbitrary: `first` is any entry), build the detections, answer
Resolve(r, first) ==
    /\ req[r].pc = "resolve"
    /\ IF req[r].results = <<>>
       THEN \* line 53: results[0] raises IndexError
            req' = [req EXCEPT ![r].pc = "done", ![r].resp = Raise("IndexError")]
       ELSE LET result == req[r].results[1]
                dir == result.save_dir
                listing == ListDir(dir)
            IN  /\ first \in listing \/ (listing = {} /\ first = <<>>)
                /\ IF UnknownClass(result)
                   THEN \* line 65: model.names[cls_id] raises KeyError
                        req' = [req EXCEPT ![r].pc = "done", ![r].listed = listing,
                                           ![r].resp = Raise("KeyError")]
                   ELSE IF listing = {} \/ ~Exists(dir, first)
                   THEN req' = [req EXCEPT ![r].pc = "done", ![r].listed = listing,
                                           ![r].resp = JsonError(500, "No output file generated")]
                   ELSE req' = [req EXCEPT ![r].pc = "done", ![r].listed = listing,
                                           ![r].output_file = first,
                                           ![r].resp = JsonOk(req[r].content_type, result, dir, first)]
    /\ UNCHANGED <<uploads, dirs, files, nextTok, produced, lastGet>>

\* ---------------------------------------------------------- get_output
image_exts == { <<".", "j", "p", "g">>, <<".", "j", "p", "e", "g">>,
                <<".", "p", "n", "g">>, <<".", "w", "e", "b", "p">> }

\* a slip: the extension compared as written, without .lower()
MediaType_cased(filename) ==
    IF SplitExt(filename) \in image_exts THEN "image/jpeg" ELSE "video/mp4"

\* lines 89-90
MediaType(filename) ==
    IF Lower(SplitExt(filename)) \in image_exts THEN "image/jpeg" ELSE "video/mp4"

\* a slip: directory entries matched as well as regular files
Matches_entries(filename) ==
    {f \in files : f.name = filename}
        \cup {[dir |-> d, name |-> d, run |-> 0] : d \in dirs \cap {filename}}

\* line 82: the path parameter of /output/{filename}
UrlName(url) == SubSeq(url, Len(url_prefix) + 1, Len(url))

\* lines 85-86: the regular files below outputs whose base name is filename
Matches(filename) == {f \in files : f.name = filename}

\* lines 83-92: os.walk visits the directories in an order the file system
\* decides, so any match may be the first one met
GetOutput(filename) ==
    /\ IF Matches(filename) = {}
       THEN lastGet' = [NoGet EXCEPT !.status = 404, !.name = filename,
                                     !.error = "Output file not found"]
       ELSE \E f \in Matches(filename) :
                lastGet' = [NoGet EXCEPT !.status = 200, !.name = filename,
                                         !.dir = f.dir, !.run = f.run,
                                         !.media_type = MediaType(filename)]
    /\ UNCHANGED <<req, uploads, dirs, files, nextTok, produced>>

\* names a client may ask for: every name that exists below outputs, file or
\* directory, and a name of nothing
never_name == <<"n", "o", ".", "j", "p", "g">>

GetNames == {f.name : f \in files} \cup dirs \cup {never_name}

\* predict is a coroutine with no await in its body: the event loop runs it
\* from line 36 to its return before it starts another predict.  get_output
\* is a plain function, run on a worker thread, and falls between any two
\* steps of a predict.
NoPredictRunning == \A r \in Reqs : req[r].pc \in {"idle", "done"}

Next ==
    \/ \E r \in Reqs, u \in Uploads :
           NoPredictRunning /\ Receive(r, u.filename, u.content_type)
    \/ \E r \in Reqs, o \in SaveOutcomes : Save(r, o)
    \/ \E r \in Reqs :
           \E d \in DetectorRuns(req[r].upload) : Detect(r, d.outcome, d.saved, d.boxes)
    \/ \E r \in Reqs :
           \E first \in ArtifactNames(req[r].upload) \cup {<<>>} : Resolve(r, first)
    \/ \E n \in GetNames : GetOutput(n)

Spec == Init /\ [][Next]_vars

\* ------------------------------------------------- several server processes
\* The same handlers served by several worker processes over the same two
\* directories: the steps of different predict calls interleave freely.
WorkerUploads ==
    { [filename |-> a_jpg,  content_type |-> img_png],
      [filename |-> a_bare, content_type |-> img_png] }

WorkerRuns(source) ==
    { [outcome |-> "raise",  saved |-> {}, boxes |-> NoBoxes],
      [outcome |-> "result", saved |-> {}, boxes |-> NoBoxes],
      [outcome |-> "result", saved |-> {ImageName(source)}, boxes |-> Boxes(three_boxes)],
      [outcome |-> "result", saved |-> ArtifactNames(source), boxes |-> Boxes(<<>>)] }

NextWorkers ==
    \/ \E r \in Reqs, u \in WorkerUploads : Receive(r, u.filename, u.content_type)
    \/ \E r \in Reqs, o \in SaveOutcomes : Save(r, o)
    \/ \E r \in Reqs :
           \E d \in WorkerRuns(req[r].upload) : Detect(r, d.outcome, d.saved, d.boxes)
    \/ \E r \in Reqs :
           \E first \in ArtifactNames(req[r].upload) \cup {<<>>} : Resolve(r, first)

SpecWorkers == Init /\ [][NextWorkers]_vars

\* ------------------------------------------------ get_output on its own
\* An outputs tree left by an earlier run of the service holding one file,
\* and clients asking for names.
media_stems == { <<"r">>, <<"r", ".", "t">> }

media_image_exts ==
    { <<".", "j", "p", "g">>, <<".", "J", "P", "G">>, <<".", "J", "p", "g">>,
      <<".", "j", "p", "e", "g">>, <<".", "J", "P", "E", "G">>,
      <<".", "p", "n", "g">>, <<".", "P", "n", "G">>,
      <<".", "w", "e", "b", "p">>, <<".", "W", "E", "B", "P">> }

media_other_exts ==
    { <<>>, <<".">>, <<".", "m", "p", "4">>, <<".", "a", "v", "i">>,
      <<".", "A", "V", "I">>, <<".", "g", "i", "f">>, <<".", "j", "p">>, <<".", "j", "p", "g", "x">>,
      <<".", "j", "p", "g", ".", "t", "x", "t">>, <<"j", "p", "g">> }

\* names with no stem before the dot: to os.path.splitext they have no extension
media_dotfiles == { <<".", "j", "p", "g">>, <<".", ".", "p", "n", "g">> }

MediaNames ==
    {st \o e : st \in media_stems, e \in media_image_exts \cup media_other_exts}
        \cup media_dotfiles

InitMedia ==
    /\ req = [r \in Reqs |-> IdleReq]
    /\ uploads = << >>
    /\ nextTok = 0
    /\ lastGet = NoGet
    /\ \E n \in MediaNames :
           /\ dirs = {RunDirName(0)}
           /\ files = {[dir |-> RunDirName(0), name |-> n, run |-> 0]}
           /\ produced = {n}

NextMedia == \E n \in MediaNames : GetOutput(n)

SpecMedia == InitMedia /\ [][NextMedia]_vars

\* ================================================================ claims
Ran(r) == req[r].run_dir /= <<>>
Raised(r) == req[r].pc = "done" /\ req[r].resp.kind = "raise"
Json(r, code) ==
    req[r].pc = "done" /\ req[r].resp.kind = "json" /\ req[r].resp.status = code
OwnFile(r, n) == [dir |-> req[r].run_dir, name |-> n, run |-> r]
GetStep == lastGet' /= lastGet

\* C1: the run directories requested from the detector are pairwise
\* distinct, also for predict calls whose steps interleave; every saved file
\* lies in the directory of the run that saved it, a request lists only files
\* of its own run, and a 200 response names a file of its own run and holds
\* one detection per box of its own result.
C1_RunDirsDistinct ==
    /\ \A r1, r2 \in Reqs :
           r1 /= r2 /\ Ran(r1) /\ Ran(r2) => req[r1].run_dir /= req[r2].run_dir
    /\ \A f \in files : f.dir = req[f.run].run_dir
    /\ \A r \in Reqs : \A n \in req[r].listed : OwnFile(r, n) \in files
    /\ \A r \in Reqs :
           Json(r, 200) =>
               /\ req[r].resp.output_url = url_prefix \o req[r].output_file
               /\ OwnFile(r, req[r].output_file) \in files
               /\ Len(req[r].resp.detections) = Len(req[r].results[1].boxes)

\* two predict calls in flight together, both after their detector run and
\* before either has listed its directory
C1_Witness ==
    \E r1, r2 \in Reqs :
        /\ r1 /= r2
        /\ req[r1].pc = "resolve" /\ req[r1].results /= <<>>
        /\ req[r2].pc = "resolve" /\ req[r2].results /= <<>>
        /\ ListDir(req[r1].run_dir) /= {} /\ ListDir(req[r2].run_dir) /= {}

\* C2: every finished POST /predict/ ends in a JSON body built by the
\* handler (200, or an error with a failure status); no exception leaves it.
C2_ErrorsCaught ==
    \A r \in Reqs : req[r].pc = "done" => req[r].resp.kind = "json"

\* C3: a POST /predict/ whose detector was called answers 500 with a JSON
\* error exactly when its run directory holds no file, and answers 200 only
\* when it holds one.
C3_NoOutputIff500 ==
    \A r \in Reqs :
        req[r].pc = "done" /\ Ran(r) =>
            /\ Json(r, 500) <=> ListDir(req[r].run_dir) = {}
            /\ Json(r, 200) => ListDir(req[r].run_dir) /= {}

\* C4: a GET /output/{name} leaves every file and directory as it was, and
\* for a name no detector run has saved it answers 404 with the body
\* {"error": "Output file not found"}.
C4_NotFound ==
    [][GetStep =>
          /\ files' = files /\ dirs' = dirs /\ uploads' = uploads
          /\ lastGet'.name \notin produced =>
                 /\ lastGet'.status = 404
                 /\ lastGet'.error = "Output file not found"]_vars

\* asked for the name of a run directory, after some run has saved a file
C4_Witness ==
    /\ lastGet.status = 404
    /\ lastGet.name \in dirs
    /\ produced /= {}

HasImagePrefix(ct) ==
    /\ Len(ct) >= 6
    /\ ct[1] = "i" /\ ct[2] = "m" /\ ct[3] = "a" /\ ct[4] = "g" /\ ct[5] = "e" /\ ct[6] = "/"

\* C5: in a 200 response file_type is "image" when the declared content type
\* begins with "image/" and "video" otherwise; a request with a declared
\* content type misses the detector only when its upload could not be
\* written, and whenever the content type is looked at the upload is stored.
C5_FileType ==
    \A r \in Reqs :
        /\ Json(r, 200) =>
               req[r].resp.file_type =
                   (IF HasImagePrefix(req[r].content_type) THEN "image" ELSE "video")
        /\ req[r].pc = "done" /\ ~Ran(r) /\ req[r].content_type /= NoText =>
               req[r].resp.error = "OSError"
        /\ Ran(r) \/ (Raised(r) /\ req[r].resp.error = "AttributeError") =>
               req[r].upload \in DOMAIN uploads

\* text/plain went through the detector and came back as "video"
C5_Witness ==
    \E r \in Reqs :
        /\ Json(r, 200)
        /\ req[r].content_type = txt_plain
        /\ req[r].resp.file_type = "video"

Preserved ==
    \A n \in DOMAIN uploads : n \in DOMAIN uploads' /\ uploads'[n] = uploads[n]

SaveStep(r) == req[r].pc = "save" /\ req'[r].pc /= "save"

AddsOne(r) ==
    /\ req[r].upload \notin DOMAIN uploads
    /\ DOMAIN uploads' = (DOMAIN uploads) \cup {req[r].upload}

\* C6 as claimed: every request that reaches the save step adds exactly one
\* new upload file, and no step deletes or overwrites an upload file.
C6_EverySaveAddsOne ==
    [][Preserved /\ \A r \in Reqs : SaveStep(r) => AddsOne(r)]_vars

\* C6 as amended: no step deletes or overwrites an upload file; a save step
\* adds exactly one new file or, when the destination cannot be opened, none;
\* a save step that goes on to the detector has added one.
C6_UploadsGrow ==
    [][/\ Preserved
       /\ \A r \in Reqs :
              SaveStep(r) =>
                  /\ AddsOne(r) \/ uploads' = uploads
                  /\ req'[r].pc = "detect" => AddsOne(r)]_vars

\* one request ended in a detector failure, another in the 500 answer, and
\* both uploads are still there
C6_Witness ==
    \E r1, r2 \in Reqs :
        /\ Raised(r1) /\ req[r1].resp.error = "InferenceError"
        /\ Json(r2, 500)
        /\ req[r1].upload /= req[r2].upload
        /\ {req[r1].upload, req[r2].upload} \subseteq DOMAIN uploads

\* C7: the upload names generated for two requests differ, also when both
\* declare the same file name and both are about to open their file.
C7_UploadNamesDistinct ==
    \A r1, r2 \in Reqs :
        r1 /= r2 /\ req[r1].upload /= <<>> /\ req[r2].upload /= <<>> =>
            req[r1].upload /= req[r2].upload

\* two requests with the same declared file name, both at the open
C7_Witness ==
    \E r1, r2 \in Reqs :
        /\ r1 /= r2
        /\ req[r1].pc = "save" /\ req[r2].pc = "save"
        /\ req[r1].filename = req[r2].filename

ExpectedImageNames == {st \o e : st \in media_stems, e \in media_image_exts}

\* C8: a served file is typed image/jpeg when its name ends in .jpg, .jpeg,
\* .png or .webp in any letter case after a non-empty stem, and video/mp4 in
\* every other case.
C8_MediaType ==
    lastGet.status = 200 =>
        lastGet.media_type =
            (IF lastGet.name \in ExpectedImageNames THEN "image/jpeg" ELSE "video/mp4")

\* an upper-case extension served as an image
C8_Witness ==
    /\ lastGet.status = 200
    /\ lastGet.name = <<"r", ".", "W", "E", "B", "P">>
    /\ lastGet.media_type = "image/jpeg"

\* C9: in a 200 response the detections are the boxes of the result, one
\* for one and in the same order, each labelled by the id-to-name table.
C9_Detections ==
    \A r \in Reqs :
        Json(r, 200) =>
            LET res == req[r].results[1]
                d == req[r].resp.detections
            IN  /\ Len(d) = Len(res.boxes)
                /\ \A i \in 1..Len(d) : d[i].class = Names[res.boxes[i].cls]

\* three boxes answered as net, plastic, plastic
C9_Witness ==
    \E r \in Reqs :
        /\ Json(r, 200)
        /\ Len(req[r].resp.detections) = 3
        /\ req[r].resp.detections[1].class = "net"
        /\ req[r].resp.detections[3].class = "plastic"

Answered(r, name) == Json(r, 200) /\ UrlName(req[r].resp.output_url) = name

\* C10: a GET of the name in a 200 response's output_url, made after that
\* response, answers 200 with the file of that name in the run directory of
\* that response, the one its listing put first.
C10_ServesOwnRun ==
    [][GetStep =>
          \A r \in Reqs :
              Answered(r, lastGet'.name) =>
                  /\ lastGet'.status = 200
                  /\ lastGet'.name = req[r].output_file
                  /\ lastGet'.dir = req[r].run_dir
                  /\ lastGet'.run = r]_vars

\* the file named in a 200 response, served from that response's directory
\* while another run has answered 200 as well
C10_Witness ==
    \E r1, r2 \in Reqs :
        /\ r1 /= r2
        /\ Answered(r1, lastGet.name) /\ Json(r2, 200)
        /\ lastGet.status = 200
        /\ lastGet.dir = req[r1].run_dir

====
